---- MODULE Spec2Model ----
(***************************************************************************)
(* Model of lfr_analysis.py: the two file readers, the ground-truth index  *)
(* and the metric computation.  A text line is a sequence of one-character *)
(* strings; readlines() yields each line with its trailing newline.        *)
(***************************************************************************)
EXTENDS Integers, Sequences, FiniteSets, TLC

VARIABLES
    truthFile,      \* lines of the ground-truth file (without the newline)
    hpc,            \* true_community_helper: "reading", "returned", "ValueError"
    hi,             \* index of the next line true_community_helper reads
    node_to_com,    \* dict node -> community id
    com_to_nodes,   \* dict community id -> set of nodes
    q_result,       \* outcome of the last get_true_community call
    comFile,        \* lines of the discovered-community file
    true_com,       \* argument true_com of LFR_error_stats
    LFR,            \* argument LFR of LFR_error_stats
    pc,             \* the call in progress: "graph_size_from_file", "LFR_error_stats", "done"
    gi,             \* index of the next line graph_size_from_file reads
    nodes,          \* graph_size_from_file: set of node strings
    edges,          \* graph_size_from_file: edge counter
    g_result,       \* outcome of graph_size_from_file
    ei,             \* index of the next line LFR_error_stats reads
    prop_com,       \* LFR_error_stats: proposed community read so far
    e_result        \* outcome of LFR_error_stats

vars == <<truthFile, hpc, hi, node_to_com, com_to_nodes, q_result,
          comFile, true_com, LFR, pc, gi, nodes, edges, g_result,
          ei, prop_com, e_result>>

indexVars == <<truthFile, hpc, hi, node_to_com, com_to_nodes, q_result>>
evalVars == <<comFile, true_com, LFR, pc, gi, nodes, edges, g_result,
              ei, prop_com, e_result>>

----------------------------------------------------------------------------
\* Bounds of the model.

\* longest discovered-community file, in lines
MaxLines == 3
\* longest ground-truth file, in lines
MaxTruthLines == 4
\* the true community is drawn from the subsets of 1..MaxTrueNode
MaxTrueNode == 3
\* nodes queried with get_true_community are drawn from 1..MaxQueryNode
MaxQueryNode == 4

----------------------------------------------------------------------------
\* Python string operations, on sequences of one-character strings.

NL == "\n"
TAB == "\t"
SP == " "
Marker == <<"-", "1">>

Digits == <<"0", "1", "2", "3", "4", "5", "6", "7", "8", "9">>

IsSpace(c) == c \in {SP, TAB, NL}

IsDigit(c) == \E k \in 1..10 : Digits[k] = c

DigitVal(c) == (CHOOSE k \in 1..10 : Digits[k] = c) - 1

\* str.strip(): drop leading and trailing whitespace
RECURSIVE lstrip(_)
lstrip(s) ==
    IF s # <<>> /\ IsSpace(Head(s)) THEN lstrip(Tail(s)) ELSE s

RECURSIVE rstrip(_)
rstrip(s) ==
    IF s # <<>> /\ IsSpace(s[Len(s)]) THEN rstrip(SubSeq(s, 1, Len(s) - 1)) ELSE s

strip(s) == rstrip(lstrip(s))

\* sub in s
Contains(s, sub) ==
    \E k \in 1..(Len(s) - Len(sub) + 1) : SubSeq(s, k, k + Len(sub) - 1) = sub

\* str.split(sep) for a one-character separator: every occurrence of sep cuts
RECURSIVE split(_, _)
split(s, sep) ==
    IF \E k \in 1..Len(s) : s[k] = sep
    THEN LET k == CHOOSE j \in 1..Len(s) :
                      s[j] = sep /\ \A m \in 1..(j - 1) : s[m] # sep
         IN  <<SubSeq(s, 1, k - 1)>> \o split(SubSeq(s, k + 1, Len(s)), sep)
    ELSE <<s>>

\* value of a non-empty digit string
RECURSIVE DecimalValue(_)
DecimalValue(s) ==
    IF Len(s) = 1 THEN DigitVal(s[1])
    ELSE 10 * DecimalValue(SubSeq(s, 1, Len(s) - 1)) + DigitVal(s[Len(s)])

AllDigits(s) == s # <<>> /\ \A k \in 1..Len(s) : IsDigit(s[k])

\* int(s) accepts surrounding whitespace and one leading sign
IsIntLiteral(s) ==
    LET t == strip(s)
    IN  \/ AllDigits(t)
        \/ t # <<>> /\ Head(t) \in {"-", "+"} /\ AllDigits(Tail(t))

int(s) ==
    LET t == strip(s)
    IN  IF Head(t) = "-" THEN 0 - DecimalValue(Tail(t))
        ELSE IF Head(t) = "+" THEN DecimalValue(Tail(t))
        ELSE DecimalValue(t)

\* fp.readlines(): every line keeps its newline
readlines(file) == [k \in 1..Len(file) |-> file[k] \o <<NL>>]

\* all sequences over S of length at most n
RECURSIVE SeqsUpTo(_, _)
SeqsUpTo(S, n) ==
    IF n = 0 THEN {<<>>}
    ELSE LET shorter == SeqsUpTo(S, n - 1)
         IN  shorter \cup {Append(f, x) : f \in {g \in shorter : Len(g) = n - 1}, x \in S}

\* a Python dict as a function; d[k] = v
DictSet(d, k, v) == [x \in (DOMAIN d) \cup {k} |-> IF x = k THEN v ELSE d[x]]

EmptyDict == [x \in {} |-> 0]

----------------------------------------------------------------------------
\* Ground-truth index: true_community_helper and get_true_community.

\* lines a ground-truth file is made of
TruthLines ==
    { <<"1", TAB, "5">>,      \* 1 -> 5
      <<"2", TAB, "5">>,      \* 2 -> 5
      <<"3", TAB, "7">>,      \* 3 -> 7
      <<"1", TAB, "7">>,      \* 1 -> 7: node 1 again, another community
      <<>>,                   \* blank line
      <<"4">> }               \* no tab

NoResult == [kind |-> "none"]

\* a, b = line.split("\t"); a = int(a); b = int(b)
TruthLineOk(line) ==
    LET f == split(line, TAB)
    IN  Len(f) = 2 /\ IsIntLiteral(f[1]) /\ IsIntLiteral(f[2])

\* com_to_nodes after one assignment a -> b
AddToCommunity(c2n, a, b) ==
    IF b \in DOMAIN c2n
    THEN DictSet(c2n, b, c2n[b] \cup {a})
    ELSE DictSet(c2n, b, {a})

\* one iteration of the loop whose line is truthy
HelperLine ==
    /\ hpc = "reading"
    /\ hi <= Len(truthFile)
    /\ LET i == readlines(truthFile)[hi]
           line == strip(i)
       IN  /\ i # <<>>
           /\ IF TruthLineOk(line)
              THEN LET a == int(split(line, TAB)[1])
                       b == int(split(line, TAB)[2])
                   IN  /\ node_to_com' = DictSet(node_to_com, a, b)
                       /\ com_to_nodes' = AddToCommunity(com_to_nodes, a, b)
                       /\ hi' = hi + 1
                       /\ hpc' = "reading"
              ELSE /\ hpc' = "ValueError"
                   /\ UNCHANGED <<node_to_com, com_to_nodes, hi>>
    /\ UNCHANGED <<truthFile, q_result>>
    /\ UNCHANGED evalVars

\* the loop is over: no line is left, or the line is falsy (break)
HelperLoopEnds ==
    IF hi > Len(truthFile) THEN TRUE ELSE readlines(truthFile)[hi] = <<>>

HelperReturn ==
    /\ hpc = "reading"
    /\ HelperLoopEnds
    /\ hpc' = "returned"
    /\ UNCHANGED <<truthFile, hi, node_to_com, com_to_nodes, q_result>>
    /\ UNCHANGED evalVars

\* get_true_community with dict.get defaults instead of subscripts
get_true_community_Default(n2c, c2n, q_node) ==
    IF q_node \notin DOMAIN n2c THEN [kind |-> "set", q |-> q_node, value |-> {}]
    ELSE IF n2c[q_node] \notin DOMAIN c2n THEN [kind |-> "set", q |-> q_node, value |-> {}]
    ELSE [kind |-> "set", q |-> q_node, value |-> c2n[n2c[q_node]]]

get_true_community(n2c, c2n, q_node) ==
    IF q_node \notin DOMAIN n2c THEN [kind |-> "KeyError", q |-> q_node]
    ELSE IF n2c[q_node] \notin DOMAIN c2n THEN [kind |-> "KeyError", q |-> q_node]
    ELSE [kind |-> "set", q |-> q_node, value |-> c2n[n2c[q_node]]]

Query ==
    /\ hpc = "returned"
    /\ \E q_node \in 1..MaxQueryNode :
           q_result' = get_true_community(node_to_com, com_to_nodes, q_node)
    /\ UNCHANGED <<truthFile, hpc, hi, node_to_com, com_to_nodes>>
    /\ UNCHANGED evalVars

EvalIdle ==
    /\ comFile = <<>>
    /\ true_com = {}
    /\ LFR = 0
    /\ pc = "done"
    /\ gi = 1
    /\ nodes = {}
    /\ edges = 0
    /\ g_result = NoResult
    /\ ei = 1
    /\ prop_com = {}
    /\ e_result = NoResult

InitIndex ==
    /\ truthFile \in SeqsUpTo(TruthLines, MaxTruthLines)
    /\ hpc = "reading"
    /\ hi = 1
    /\ node_to_com = EmptyDict
    /\ com_to_nodes = EmptyDict
    /\ q_result = NoResult
    /\ EvalIdle

NextIndex == HelperLine \/ HelperReturn \/ Query

SpecIndex == InitIndex /\ [][NextIndex]_vars

----------------------------------------------------------------------------
\* Exact arithmetic for the quotients of LFR_error_stats: a number is
\* [num, den] in lowest terms with den > 0.

RECURSIVE GCD(_, _)
GCD(a, b) == IF b = 0 THEN a ELSE GCD(b, a % b)

Abs(x) == IF x < 0 THEN 0 - x ELSE x

Q(n, d) ==
    LET g == GCD(Abs(n), Abs(d))
        s == IF d < 0 THEN 0 - 1 ELSE 1
    IN  [num |-> (s * n) \div g, den |-> (s * d) \div g]

Zero == [num |-> 0, den |-> 1]
One == [num |-> 1, den |-> 1]

\* outcome of a division whose divisor is zero
ZeroDivision == [num |-> 0, den |-> 0]

QMul(x, y) == Q(x.num * y.num, x.den * y.den)
QAdd(x, y) == Q(x.num * y.den + y.num * x.den, x.den * y.den)
QDiv(x, y) == IF y.num = 0 THEN ZeroDivision ELSE Q(x.num * y.den, x.den * y.num)

----------------------------------------------------------------------------
\* Discovered-community file: graph_size_from_file and LFR_error_stats.

\* lines a discovered-community file is made of
ComLines ==
    { <<"1", SP, "2">>,
      <<"1", SP, "3">>,
      <<"2", SP, "3">>,
      <<"3", SP, "4">>,
      Marker,                      \* the sentinel line
      <<"3", SP, "-", "1">>,       \* a pair whose second field is the marker
      <<>>,                        \* blank line
      <<"1">>,                     \* one field
      <<"x", SP, "2">> }           \* two fields, the first no integer

\* universe sizes LFR_error_stats is called with; 10000 is the default
UniverseSizes == {10, 10000}

\* LFR_error_stats's loop test comparing the whole line with the marker
StatsContinues_ExactMarker(i) == strip(i) # Marker

\* LFR_error_stats's loop test copied from graph_size_from_file
StatsContinues_BlankEnds(i) == ~Contains(i, Marker) /\ strip(i) # <<>>

\* graph_size_from_file: the test that lets the loop body run
SizeContinues(i) == ~Contains(i, Marker) /\ i # <<>>

\* LFR_error_stats: the test that lets the loop body run
StatsContinues(i) == ~Contains(i, Marker)

\* a , b = fields
Unpacks(fields) == Len(fields) = 2

\* one iteration of graph_size_from_file's loop that enters the body
SizeLine ==
    /\ pc = "graph_size_from_file"
    /\ gi <= Len(comFile)
    /\ LET i == strip(readlines(comFile)[gi])
       IN  /\ SizeContinues(i)
           /\ IF Unpacks(split(i, SP))
              THEN /\ nodes' = nodes \cup {split(i, SP)[1], split(i, SP)[2]}
                   /\ edges' = edges + 1
                   /\ gi' = gi + 1
                   /\ UNCHANGED <<pc, g_result>>
              ELSE /\ g_result' = [kind |-> "ValueError"]
                   /\ pc' = "call"
                   /\ UNCHANGED <<nodes, edges, gi>>
    /\ UNCHANGED <<comFile, true_com, LFR, ei, prop_com, e_result>>
    /\ UNCHANGED indexVars

\* graph_size_from_file leaves the loop: no line is left, or break
SizeLoopEnds ==
    IF gi > Len(comFile) THEN TRUE
    ELSE ~SizeContinues(strip(readlines(comFile)[gi]))

SizeReturn ==
    /\ pc = "graph_size_from_file"
    /\ SizeLoopEnds
    /\ g_result' = [kind |-> "tuple", n_nodes |-> Cardinality(nodes), n_edges |-> edges]
    /\ pc' = "call"
    /\ UNCHANGED <<comFile, true_com, LFR, gi, nodes, edges, ei, prop_com, e_result>>
    /\ UNCHANGED indexVars

\* the caller invokes LFR_error_stats(dir, true_com, LFR)
CallErrorStats ==
    /\ pc = "call"
    /\ true_com' \in SUBSET (1..MaxTrueNode)
    /\ LFR' \in UniverseSizes
    /\ pc' = "LFR_error_stats"
    /\ UNCHANGED <<comFile, gi, nodes, edges, g_result, ei, prop_com, e_result>>
    /\ UNCHANGED indexVars

\* a , b = i.strip().split(" "); a = int(a); b = int(b)
StatsLineOk(i) ==
    LET f == split(strip(i), SP)
    IN  Unpacks(f) /\ IsIntLiteral(f[1]) /\ IsIntLiteral(f[2])

\* one iteration of LFR_error_stats's loop that enters the body
ErrorStatsLine ==
    /\ pc = "LFR_error_stats"
    /\ ei <= Len(comFile)
    /\ LET i == readlines(comFile)[ei]
       IN  /\ StatsContinues(i)
           /\ IF StatsLineOk(i)
              THEN LET a == int(split(strip(i), SP)[1])
                       b == int(split(strip(i), SP)[2])
                   IN  /\ prop_com' = prop_com \cup {a, b}
                       /\ ei' = ei + 1
                       /\ UNCHANGED <<pc, e_result>>
              ELSE /\ e_result' = [kind |-> "ValueError"]
                   /\ pc' = "done"
                   /\ UNCHANGED <<prop_com, ei>>
    /\ UNCHANGED <<comFile, true_com, LFR, gi, nodes, edges, g_result>>
    /\ UNCHANGED indexVars

\* recall with the missed nodes in the numerator
Recall_Swapped(true_positive, false_negative) ==
    QDiv(Q(false_negative, 1), Q(true_positive + false_negative, 1))

\* recall defined as 0 for an empty true community
Recall_Guarded(true_positive, false_negative) ==
    IF true_positive + false_negative = 0 THEN Zero
    ELSE QDiv(Q(true_positive, 1), Q(true_positive + false_negative, 1))

\* F1 without the factor 2
F1Score_NoDouble(per, rec) ==
    QDiv(QMul(per, rec), QAdd(per, rec))

\* the empty proposed community is not singled out
ProposedEmpty_Never(P) == FALSE

Precision(true_positive, false_positive) ==
    QDiv(Q(true_positive, 1), Q(true_positive + false_positive, 1))

Recall(true_positive, false_negative) ==
    QDiv(Q(true_positive, 1), Q(true_positive + false_negative, 1))

F1Score(per, rec) ==
    QDiv(QMul(QMul(Q(2, 1), per), rec), QAdd(per, rec))

\* if len(prop_com) == 0
ProposedEmpty(P) == Cardinality(P) = 0

Stats(sym_diff, per, rec, f1, size) ==
    [kind |-> "tuple", sym_diff |-> sym_diff, per |-> per, rec |-> rec,
     f1 |-> f1, size |-> size]

ZeroDivisionError(at) == [kind |-> "ZeroDivisionError", at |-> at]

\* the statements of LFR_error_stats after the loop
ErrorStats(T, P, L) ==
    LET sym_diff == (T \ P) \cup (P \ T)
        full_net == 1..L
        true_positive == T \cap P
        true_negative == (full_net \ T) \ P
        false_negative == T \ P
        false_positive == P \ T
        per == Precision(Cardinality(true_positive), Cardinality(false_positive))
        rec == Recall(Cardinality(true_positive), Cardinality(false_negative))
        f1 == F1Score(per, rec)
    IN  IF ProposedEmpty(P) THEN Stats(sym_diff, Zero, Zero, Zero, 0)
        ELSE IF per = ZeroDivision THEN ZeroDivisionError("per")
        ELSE IF rec = ZeroDivision THEN ZeroDivisionError("rec")
        ELSE IF f1 = ZeroDivision THEN ZeroDivisionError("f1")
        ELSE Stats(sym_diff, per, rec, f1, Cardinality(P))

\* LFR_error_stats leaves the loop: no line is left, or break
StatsLoopEnds ==
    IF ei > Len(comFile) THEN TRUE
    ELSE ~StatsContinues(readlines(comFile)[ei])

ErrorStatsFinish ==
    /\ pc = "LFR_error_stats"
    /\ StatsLoopEnds
    /\ e_result' = ErrorStats(true_com, prop_com, LFR)
    /\ pc' = "done"
    /\ UNCHANGED <<comFile, true_com, LFR, gi, nodes, edges, g_result, ei, prop_com>>
    /\ UNCHANGED indexVars

IndexIdle ==
    /\ truthFile = <<>>
    /\ hpc = "returned"
    /\ hi = 1
    /\ node_to_com = EmptyDict
    /\ com_to_nodes = EmptyDict
    /\ q_result = NoResult

Init ==
    /\ comFile \in SeqsUpTo(ComLines, MaxLines)
    /\ true_com = {}
    /\ LFR = 0
    /\ pc = "graph_size_from_file"
    /\ gi = 1
    /\ nodes = {}
    /\ edges = 0
    /\ g_result = NoResult
    /\ ei = 1
    /\ prop_com = {}
    /\ e_result = NoResult
    /\ IndexIdle

Next ==
    \/ SizeLine
    \/ SizeReturn
    \/ CallErrorStats
    \/ ErrorStatsLine
    \/ ErrorStatsFinish

Spec == Init /\ [][Next]_vars

----------------------------------------------------------------------------
\* What the files say, read off the text alone.

\* index of the first line of file that satisfies Test, Len(file) + 1 if none
FirstLine(file, Test(_)) ==
    IF \E k \in 1..Len(file) : Test(file[k])
    THEN CHOOSE k \in 1..Len(file) :
             Test(file[k]) /\ \A m \in 1..(k - 1) : ~Test(file[m])
    ELSE Len(file) + 1

HasMarker(line) == Contains(line, Marker)
IsBlank(line) == strip(line) = <<>>
Fields(line) == split(strip(line), SP)
TwoFields(line) == ~IsBlank(line) /\ Len(Fields(line)) = 2
IntPair(line) ==
    LET f == Fields(line)
    IN  Len(f) = 2 /\ IsIntLiteral(f[1]) /\ IsIntLiteral(f[2])
NotTwoFields(line) == Len(Fields(line)) # 2

\* first sentinel line of the discovered-community file
Sentinel == FirstLine(comFile, HasMarker)
\* first line that does not split into two fields
FirstMalformed == FirstLine(comFile, NotTwoFields)
\* first line that is not a pair of integers
FirstNonPair == LET NonPair(line) == ~IntPair(line) IN FirstLine(comFile, NonPair)

\* endpoints, as strings, of the two-field lines among the first n
StrEndpoints(n) ==
    UNION {LET f == Fields(comFile[k]) IN {f[1], f[2]} :
               k \in {j \in 1..n : TwoFields(comFile[j])}}

\* endpoints, as integers, of the integer-pair lines among the first n
IntEndpoints(n) ==
    UNION {LET f == Fields(comFile[k]) IN {int(f[1]), int(f[2])} :
               k \in {j \in 1..n : IntPair(comFile[j])}}

SizeResult(n, e) == [kind |-> "tuple", n_nodes |-> n, n_edges |-> e]
ValueError == [kind |-> "ValueError"]

\* LFR_error_stats has ended, and its reader met no malformed line
StatsComputed == pc = "done" /\ e_result.kind # "ValueError"

----------------------------------------------------------------------------
\* Claims about LFR_error_stats and graph_size_from_file, under Spec.

\* C2: if the proposed and the true set are both non-empty and disjoint,
\* LFR_error_stats returns a tuple with precision = recall = F1 = 0.
C2_DisjointGivesZeros ==
    (StatsComputed /\ prop_com # {} /\ true_com # {} /\ prop_com \cap true_com = {})
        => /\ e_result.kind = "tuple"
           /\ e_result.per = Zero
           /\ e_result.rec = Zero
           /\ e_result.f1 = Zero

\* C3 as stated: whenever the proposed set equals the true set, the empty
\* set included, precision = recall = F1 = 1 and the symmetric difference
\* is empty.
C3_EqualSetsGiveOnes ==
    (StatsComputed /\ prop_com = true_com)
        => /\ e_result.kind = "tuple"
           /\ e_result.per = One
           /\ e_result.rec = One
           /\ e_result.f1 = One
           /\ e_result.sym_diff = {}

\* C3 amended: whenever the proposed set equals a non-empty true set,
\* precision = recall = F1 = 1 and the symmetric difference is empty.
C3_EqualNonEmptySetsGiveOnes ==
    (StatsComputed /\ prop_com = true_com /\ true_com # {})
        => /\ e_result.kind = "tuple"
           /\ e_result.per = One
           /\ e_result.rec = One
           /\ e_result.f1 = One
           /\ e_result.sym_diff = {}

C3_Witness ==
    /\ StatsComputed
    /\ true_com = {1, 2, 3}
    /\ prop_com = true_com
    /\ e_result.kind = "tuple"

\* C4: when the file has no line before its sentinel or its end, the call
\* ends with exactly (T, 0, 0, 0, 0), for every true set T and universe size.
C4_EmptyProposedGivesZeros ==
    (pc = "done" /\ Sentinel = 1)
        => /\ prop_com = {}
           /\ e_result = Stats(true_com, Zero, Zero, Zero, 0)

C4_Witness ==
    /\ pc = "done"
    /\ Sentinel = 1
    /\ Len(comFile) > 1
    /\ true_com = {1, 2, 3}
    /\ LFR = 10000
    /\ e_result.kind = "tuple"

\* C7: with a non-empty intersection the call returns T symmetric-difference
\* P, precision |T n P| / |P|, recall |T n P| / |T|, F1 with
\* F1 * (precision + recall) = 2 * precision * recall, and |P|, whatever the
\* universe size; T = {1,2,3}, P = {2,3,4}, universe 10 gives 2/3, 2/3, 2/3
\* and {1, 4}.
C7_OverlapMetrics ==
    /\ (StatsComputed /\ prop_com \cap true_com # {})
         => LET tp == Cardinality(prop_com \cap true_com)
                r == e_result
            IN  /\ r.kind = "tuple"
                /\ r.sym_diff = (true_com \cup prop_com) \ (true_com \cap prop_com)
                /\ r.per.den > 0 /\ r.per.num * Cardinality(prop_com) = tp * r.per.den
                /\ r.rec.den > 0 /\ r.rec.num * Cardinality(true_com) = tp * r.rec.den
                /\ r.f1.den > 0
                /\ r.f1.num * (r.per.num * r.rec.den + r.rec.num * r.per.den)
                       = 2 * r.per.num * r.rec.num * r.f1.den
                /\ r.size = Cardinality(prop_com)
    /\ (StatsComputed /\ true_com = {1, 2, 3} /\ prop_com = {2, 3, 4} /\ LFR = 10)
         => e_result = Stats({1, 4}, Q(2, 3), Q(2, 3), Q(2, 3), 3)

C7_Witness ==
    /\ StatsComputed
    /\ true_com = {1, 2, 3}
    /\ prop_com = {2, 3, 4}
    /\ LFR = 10
    /\ e_result.kind = "tuple"

\* C10: with an empty true set and a non-empty proposed set the call returns
\* no tuple: the recall division fails with a division by zero.
C10_EmptyTrueSetDividesByZero ==
    (StatsComputed /\ true_com = {} /\ prop_com # {})
        => e_result = ZeroDivisionError("rec")

C10_Witness ==
    /\ StatsComputed
    /\ true_com = {}
    /\ prop_com = {1, 2, 3}
    /\ e_result.kind = "ZeroDivisionError"

\* C6: both readers stop at the first line that contains "-1": no line at or
\* after it is read or counted, and when every line before it is a pair of
\* integers, each of those lines gives its two endpoints (and one edge in
\* size mode); lines 1 2, 1 3, -1 give {1, 2, 3} and (3, 2).
C6_StopsAtSentinel ==
    /\ LET k == Sentinel
           strs == StrEndpoints(k - 1)
           ints == IntEndpoints(k - 1)
           pairsBefore == FirstNonPair >= k
       IN  /\ gi <= k /\ ei <= k
           /\ nodes \subseteq strs /\ edges <= k - 1
           /\ prop_com \subseteq ints
           /\ (g_result.kind # "none" /\ pairsBefore)
                => g_result = SizeResult(Cardinality(strs), k - 1)
           /\ (pc = "done" /\ pairsBefore)
                => /\ e_result.kind # "ValueError"
                   /\ prop_com = ints
    /\ (comFile = << <<"1", SP, "2">>, <<"1", SP, "3">>, Marker >> /\ pc = "done")
         => /\ prop_com = {1, 2, 3}
            /\ g_result = SizeResult(3, 2)

C6_Witness ==
    /\ comFile = << <<"1", SP, "2">>, Marker, <<"3", SP, "4">> >>
    /\ pc = "done"
    /\ prop_com = {1, 2}
    /\ g_result = SizeResult(2, 1)
    /\ e_result.kind = "tuple"

\* C9: in membership mode a line before the sentinel that does not split
\* into two fields, a blank line included, ends the call with a ValueError:
\* no tuple is returned and no later line is read.  In size mode a blank
\* line ends the loop and the call returns the counts reached so far.
C9_MalformedAbortsBlankTerminates ==
    LET m == FirstMalformed
    IN  m < Sentinel
          => /\ e_result.kind \in {"none", "ValueError"}
             /\ ei <= m
             /\ prop_com \subseteq IntEndpoints(m - 1)
             /\ pc = "done" => e_result = ValueError
             /\ (g_result.kind # "none" /\ IsBlank(comFile[m]))
                  => /\ gi = m
                     /\ g_result = SizeResult(Cardinality(StrEndpoints(m - 1)), m - 1)

C9_Witness ==
    /\ comFile = << <<"1", SP, "2">>, <<>>, <<"1", SP, "3">> >>
    /\ pc = "done"
    /\ e_result = ValueError
    /\ ei = 2
    /\ g_result = SizeResult(2, 1)

----------------------------------------------------------------------------
\* Claims about the ground-truth index, under SpecIndex.

\* first blank line of the ground-truth file
FirstBlank == FirstLine(truthFile, IsBlank)

\* a line <node> TAB <community-id>
TruthPair(line) ==
    LET f == split(strip(line), TAB)
    IN  Len(f) = 2 /\ IsIntLiteral(f[1]) /\ IsIntLiteral(f[2])

\* nodes named on the well-formed lines among the first n
NodesOnLines(n) ==
    {int(split(strip(truthFile[k]), TAB)[1]) : k \in {j \in 1..n : TruthPair(truthFile[j])}}

InCommunity(n, c) == c \in DOMAIN com_to_nodes /\ n \in com_to_nodes[c]
MapsTo(n, c) == n \in DOMAIN node_to_com /\ node_to_com[n] = c

IndexedNodes == (DOMAIN node_to_com) \cup UNION {com_to_nodes[c] : c \in DOMAIN com_to_nodes}
IndexedComs == (DOMAIN com_to_nodes) \cup {node_to_com[n] : n \in DOMAIN node_to_com}

\* C1: after true_community_helper has returned, n is in com_to_nodes[c] iff
\* node_to_com[n] = c, and com_to_nodes[c] has as many nodes as node_to_com
\* maps to c, also when a node is listed twice with different communities.
C1_IndexConsistent ==
    hpc = "returned"
        => \A c \in IndexedComs :
               /\ \A n \in IndexedNodes : InCommunity(n, c) <=> MapsTo(n, c)
               /\ c \in DOMAIN com_to_nodes
               /\ Cardinality(com_to_nodes[c])
                      = Cardinality({n \in DOMAIN node_to_com : node_to_com[n] = c})

\* C5: true_community_helper stops at the first blank line or at the end of
\* the file and returns the index of the lines before it; lines 1 TAB 5,
\* 2 TAB 5, 3 TAB 7 and a blank line give true_community(1) = {1, 2} and
\* true_community(3) = {3}.
C5_StopsAtFirstBlank ==
    /\ (hpc # "reading" /\ \A k \in 1..(FirstBlank - 1) : TruthPair(truthFile[k]))
         => /\ hpc = "returned"
            /\ hi = FirstBlank
            /\ DOMAIN node_to_com = NodesOnLines(FirstBlank - 1)
    /\ (hpc # "reading"
            /\ truthFile = << <<"1", TAB, "5">>, <<"2", TAB, "5">>, <<"3", TAB, "7">>, <<>> >>)
         => /\ hpc = "returned"
            /\ get_true_community(node_to_com, com_to_nodes, 1)
                   = [kind |-> "set", q |-> 1, value |-> {1, 2}]
            /\ get_true_community(node_to_com, com_to_nodes, 3)
                   = [kind |-> "set", q |-> 3, value |-> {3}]

\* C8: get_true_community of a node that was on no processed line fails with
\* a KeyError, returns no set, and leaves node_to_com and com_to_nodes as
\* they were.
C8_UnseenNodeFails ==
    /\ [](q_result.kind # "none" /\ q_result.q \notin NodesOnLines(hi - 1)
            => q_result.kind = "KeyError")
    /\ [][q_result' # q_result => UNCHANGED <<node_to_com, com_to_nodes>>]_vars

C8_Witness ==
    /\ hpc = "returned"
    /\ DOMAIN node_to_com = {1, 2}
    /\ q_result = [kind |-> "KeyError", q |-> 3]

====
